---- MODULE Spec2Model ----
(***************************************************************************)
(* A model of src/src/Form.tsx: the URL form with its two sub-forms        *)
(* (EmailForm, TelephoneForm), its codecs and validators, in the two       *)
(* wirings the file holds:                                                 *)
(*   "registered"  lines 1-212:   each sub-form registers its validator    *)
(*                 with the container from a mount effect (setValidator);  *)
(*   "registry"    lines 214-412: the validator is looked up from          *)
(*                 subForms[urlType].isValid.                              *)
(* A string is a sequence of one-character strings, so that the codecs are *)
(* computed character by character as the code computes them.              *)
(***************************************************************************)
EXTENDS Integers, Sequences, FiniteSets, TLC

(***************************************************************************)
(* Characters                                                              *)
(***************************************************************************)

\* The printable ASCII characters in code order: Printable[i] has code 31 + i.
\* (The module's lexer accepts no grave accent inside a string, so code 96 is
\* written out.)
Printable ==
  << " ", "!", "\"", "#", "$", "%", "&", "'", "(", ")", "*", "+", ",", "-", ".", "/",
     "0", "1", "2", "3", "4", "5", "6", "7", "8", "9", ":", ";", "<", "=", ">", "?",
     "@", "A", "B", "C", "D", "E", "F", "G", "H", "I", "J", "K", "L", "M", "N", "O",
     "P", "Q", "R", "S", "T", "U", "V", "W", "X", "Y", "Z", "[", "\\", "]", "^", "_",
     "<backtick>", "a", "b", "c", "d", "e", "f", "g", "h", "i", "j", "k", "l", "m", "n", "o",
     "p", "q", "r", "s", "t", "u", "v", "w", "x", "y", "z", "{", "|", "}", "~" >>

\* A decoded byte outside printable ASCII (a control character, or a byte of a
\* non-ASCII sequence) is shown as this one character.
NonPrintable == "<non-printable>"

CharCode(c) == 31 + (CHOOSE i \in 1..Len(Printable) : Printable[i] = c)

CharOfCode(n) == IF n >= 32 /\ n <= 126 THEN Printable[n - 31] ELSE NonPrintable

Digits == {"0", "1", "2", "3", "4", "5", "6", "7", "8", "9"}

UpperAlpha == {Printable[i] : i \in 34..59}

LowerAlpha == {Printable[i] : i \in 66..91}

Alpha == UpperAlpha \cup LowerAlpha

AlphaNum == Alpha \cup Digits

HexDigits == <<"0", "1", "2", "3", "4", "5", "6", "7", "8", "9", "A", "B", "C", "D", "E", "F">>

IsHexDigit(c) == c \in Digits \cup {"A", "B", "C", "D", "E", "F", "a", "b", "c", "d", "e", "f"}

HexValue(c) ==
  IF c \in Digits THEN CharCode(c) - 48
  ELSE IF c \in UpperAlpha THEN CharCode(c) - 55
  ELSE CharCode(c) - 87

ToLowerChar(c) == IF c \in UpperAlpha THEN CharOfCode(CharCode(c) + 32) ELSE c

(***************************************************************************)
(* Strings                                                                 *)
(***************************************************************************)

\* All strings over alphabet A of length at most n.
RECURSIVE StringsUpTo(_, _)
StringsUpTo(A, n) ==
  IF n = 0 THEN {<<>>}
  ELSE LET shorter == StringsUpTo(A, n - 1)
       IN  shorter \cup {Append(s, c) : s \in shorter, c \in A}

\* String.prototype.indexOf: the first position of pat in s, 0 when there is none.
IndexOf(s, pat) ==
  LET hits == {i \in 1..(Len(s) - Len(pat) + 1) : SubSeq(s, i, i + Len(pat) - 1) = pat}
  IN  IF hits = {} THEN 0 ELSE CHOOSE i \in hits : \A j \in hits : i <= j

\* String.prototype.replace with a string pattern: only the first occurrence.
StringReplace(s, pat, rep) ==
  LET i == IndexOf(s, pat)
  IN  IF i = 0 THEN s
      ELSE SubSeq(s, 1, i - 1) \o rep \o SubSeq(s, i + Len(pat), Len(s))

\* s.match(/\d+/): the first maximal run of digits, <<>> standing for null
\* (a match of \d+ is never empty).
RECURSIVE DigitRun(_, _)
DigitRun(s, i) ==
  IF i <= Len(s) /\ s[i] \in Digits THEN <<s[i]>> \o DigitRun(s, i + 1) ELSE <<>>

MatchDigits(s) ==
  LET starts == {i \in 1..Len(s) : s[i] \in Digits}
  IN  IF starts = {} THEN <<>>
      ELSE DigitRun(s, CHOOSE i \in starts : \A j \in starts : i <= j)

\* s.split(sep) for a one-character separator.
RECURSIVE Split(_, _)
Split(s, sep) ==
  LET i == IndexOf(s, <<sep>>)
  IN  IF i = 0 THEN <<s>>
      ELSE <<SubSeq(s, 1, i - 1)>> \o Split(SubSeq(s, i + 1, Len(s)), sep)

(***************************************************************************)
(* The telephone codec and validator                                       *)
(***************************************************************************)

TelScheme == <<"t", "e", "l", ":">>

\* A decoder that removes every tel:, as replace(/tel:/g, '') does.
RECURSIVE telephoneFromUrlGlobal(_)
telephoneFromUrlGlobal(url) ==
  IF IndexOf(url, TelScheme) = 0 THEN url
  ELSE telephoneFromUrlGlobal(StringReplace(url, TelScheme, <<>>))

telephoneFromUrl(url) == StringReplace(url, TelScheme, <<>>)

urlFromTelephone(telephone) == TelScheme \o telephone

\* A validator anchored to the whole string, /^\d+$/.
isTelephoneUrlValidAnchored(url) ==
  LET t == telephoneFromUrl(url) IN t # <<>> /\ \A i \in 1..Len(t) : t[i] \in Digits

isTelephoneUrlValid(url) == MatchDigits(telephoneFromUrl(url)) # <<>>

(***************************************************************************)
(* The platform's URL and URLSearchParams, as far as the e-mail codec uses *)
(* them (WHATWG URL standard).  Modelled for URLs whose path is opaque: a  *)
(* scheme other than http, https, ws, wss, ftp, file, followed by a path   *)
(* that does not start with "/" (every mailto: and tel: URL of the model). *)
(***************************************************************************)

PercentEncodeByte(n) == <<"%", HexDigits[(n \div 16) + 1], HexDigits[(n % 16) + 1]>>

\* application/x-www-form-urlencoded byte serialisation of one character.
FormEncodeChar(c) ==
  IF c = " " THEN <<"+">>
  ELSE IF c \in AlphaNum \cup {"*", "-", ".", "_"} THEN <<c>>
  ELSE PercentEncodeByte(CharCode(c))

RECURSIVE FormEncode(_)
FormEncode(s) ==
  IF s = <<>> THEN <<>> ELSE FormEncodeChar(Head(s)) \o FormEncode(Tail(s))

\* new URLSearchParams(query).toString(), query a sequence of <<name, value>>.
RECURSIVE SearchParamsToString(_)
SearchParamsToString(query) ==
  IF query = <<>> THEN <<>>
  ELSE LET pair == FormEncode(query[1][1]) \o <<"=">> \o FormEncode(query[1][2])
       IN  IF Len(query) = 1 THEN pair
           ELSE pair \o <<"&">> \o SearchParamsToString(Tail(query))

RECURSIVE PercentDecode(_)
PercentDecode(s) ==
  IF s = <<>> THEN <<>>
  ELSE IF s[1] = "%" /\ Len(s) >= 3 /\ IsHexDigit(s[2]) /\ IsHexDigit(s[3])
       THEN <<CharOfCode(16 * HexValue(s[2]) + HexValue(s[3]))>>
              \o PercentDecode(SubSeq(s, 4, Len(s)))
       ELSE <<s[1]>> \o PercentDecode(Tail(s))

RECURSIVE PlusToSpace(_)
PlusToSpace(s) ==
  IF s = <<>> THEN <<>>
  ELSE <<IF Head(s) = "+" THEN " " ELSE Head(s)>> \o PlusToSpace(Tail(s))

\* The application/x-www-form-urlencoded parser: the <<name, value>> pairs of a
\* query string, in order.
RECURSIVE ParseQuerySegments(_)
ParseQuerySegments(segments) ==
  IF segments = <<>> THEN <<>>
  ELSE LET seg == Head(segments)
           eq == IndexOf(seg, <<"=">>)
           name == IF eq = 0 THEN seg ELSE SubSeq(seg, 1, eq - 1)
           value == IF eq = 0 THEN <<>> ELSE SubSeq(seg, eq + 1, Len(seg))
       IN  (IF seg = <<>> THEN <<>>
            ELSE << <<PercentDecode(PlusToSpace(name)), PercentDecode(PlusToSpace(value))>> >>)
           \o ParseQuerySegments(Tail(segments))

ParseQuery(query) == ParseQuerySegments(Split(query, "&"))

\* URLSearchParams.get followed by || '': the first value under name, '' when
\* there is none (null) or when it is empty.
SearchParamsGetOrEmpty(params, name) ==
  LET hits == {i \in 1..Len(params) : params[i][1] = name}
  IN  IF hits = {} THEN <<>>
      ELSE params[CHOOSE i \in hits : \A j \in hits : i <= j][2]

RECURSIVE TrimLeft(_)
TrimLeft(s) == IF s # <<>> /\ Head(s) = " " THEN TrimLeft(Tail(s)) ELSE s

RECURSIVE TrimRight(_)
TrimRight(s) ==
  IF s # <<>> /\ s[Len(s)] = " " THEN TrimRight(SubSeq(s, 1, Len(s) - 1)) ELSE s

SchemeChars == AlphaNum \cup {"+", "-", "."}

RECURSIVE Lowercase(_)
Lowercase(s) == IF s = <<>> THEN <<>> ELSE <<ToLowerChar(Head(s))>> \o Lowercase(Tail(s))

\* The opaque path state: a space directly before "?" or "#" is written %20,
\* every other printable character is kept.
RECURSIVE OpaquePathEncode(_, _)
OpaquePathEncode(path, beforeQueryOrFragment) ==
  IF path = <<>> THEN <<>>
  ELSE IF Len(path) = 1 /\ path[1] = " " /\ beforeQueryOrFragment
       THEN PercentEncodeByte(32)
       ELSE <<Head(path)>> \o OpaquePathEncode(Tail(path), beforeQueryOrFragment)

\* The query state: the query percent-encode set.
QueryEncodeChar(c) ==
  IF c \in {" ", "\"", "#", "<", ">"} THEN PercentEncodeByte(CharCode(c)) ELSE <<c>>

RECURSIVE QueryEncode(_)
QueryEncode(s) ==
  IF s = <<>> THEN <<>> ELSE QueryEncodeChar(Head(s)) \o QueryEncode(Tail(s))

FirstOf(s, chars) ==
  LET hits == {i \in 1..Len(s) : s[i] \in chars}
  IN  IF hits = {} THEN Len(s) + 1 ELSE CHOOSE i \in hits : \A j \in hits : i <= j

\* new URL(input) with no base: [ok |-> FALSE] where the constructor throws
\* TypeError, else the scheme, the pathname and the query of the parsed URL.
ParseUrl(rawInput) ==
  LET input == TrimRight(TrimLeft(rawInput))
      schemeEnd == FirstOf(input, {c \in {input[i] : i \in 1..Len(input)} : c \notin SchemeChars})
  IN  IF \/ input = <<>>
         \/ input[1] \notin Alpha
         \/ schemeEnd > Len(input)
         \/ input[schemeEnd] # ":"
      THEN [ok |-> FALSE, scheme |-> <<>>, pathname |-> <<>>, query |-> <<>>]
      ELSE LET rest == SubSeq(input, schemeEnd + 1, Len(input))
               pathEnd == FirstOf(rest, {"?", "#"})
               afterPath == SubSeq(rest, pathEnd + 1, Len(rest))
               hasQuery == pathEnd <= Len(rest) /\ rest[pathEnd] = "?"
               queryEnd == FirstOf(afterPath, {"#"})
           IN  [ok |-> TRUE,
                scheme |-> Lowercase(SubSeq(input, 1, schemeEnd - 1)),
                pathname |-> OpaquePathEncode(SubSeq(rest, 1, pathEnd - 1),
                                              pathEnd <= Len(rest)),
                query |-> IF hasQuery
                          THEN QueryEncode(SubSeq(afterPath, 1, queryEnd - 1))
                          ELSE <<>>]

(***************************************************************************)
(* The e-mail codec and validator                                          *)
(***************************************************************************)

MailtoScheme == <<"m", "a", "i", "l", "t", "o", ":">>

SubjectName == <<"s", "u", "b", "j", "e", "c", "t">>

BodyName == <<"b", "o", "d", "y">>

EmptyEmailParts == [email |-> <<>>, subject |-> <<>>, body |-> <<>>]

urlFromEmailParts(parts) ==
  LET query == << <<SubjectName, parts.subject>>, <<BodyName, parts.body>> >>
      queryString == SearchParamsToString(query)
  IN  MailtoScheme \o parts.email \o <<"?">> \o queryString

\* A decoder without the try/catch around new URL: the TypeError gets out.
emailPartsFromUrlUncaught(url) ==
  LET parsedUrl == ParseUrl(url)
      params == ParseQuery(parsedUrl.query)
  IN  IF ~parsedUrl.ok THEN [type |-> "throw", val |-> "TypeError"]
      ELSE [email |-> parsedUrl.pathname,
            subject |-> SearchParamsGetOrEmpty(params, SubjectName),
            body |-> SearchParamsGetOrEmpty(params, BodyName)]

emailPartsFromUrl(url) ==
  LET parsedUrl == ParseUrl(url)
      params == ParseQuery(parsedUrl.query)
  IN  IF ~parsedUrl.ok THEN EmptyEmailParts
      ELSE [email |-> parsedUrl.pathname,
            subject |-> SearchParamsGetOrEmpty(params, SubjectName),
            body |-> SearchParamsGetOrEmpty(params, BodyName)]

\* A validator that takes all that follows the scheme for the address.
isEmailUrlValidOnRawUrl(url) == StringReplace(url, MailtoScheme, <<>>) # <<>>

isEmailUrlValid(url) == emailPartsFromUrl(url).email # <<>>

\* The initial value of the url state.
InitialUrl ==
  MailtoScheme \o <<"m", "e", "@", "g", "m", "a", "i", "l", ".", "c", "o", "m">>
    \o <<"?">> \o SubjectName \o <<"=">> \o SubjectName
    \o <<"&">> \o BodyName \o <<"=">> \o BodyName

(***************************************************************************)
(* React state that holds a JavaScript value of any type                   *)
(***************************************************************************)

JsNull == [type |-> "null", val |-> "null"]

JsBoolean(b) == [type |-> "boolean", val |-> IF b THEN "true" ELSE "false"]

JsFunction(name) == [type |-> "function", val |-> name]

TypeError == [type |-> "throw", val |-> "TypeError"]

\* The string a non-string argument of new URL(...) is converted to.
ToUSVString(x) ==
  CASE x.val = "null" -> <<"n", "u", "l", "l">>
    [] x.val = "true" -> <<"t", "r", "u", "e">>
    [] x.val = "false" -> <<"f", "a", "l", "s", "e">>

\* A validator called with a value that is no string.  isEmailUrlValid hands
\* it to new URL, which converts it to a string; isTelephoneUrlValid calls
\* its replace method, which null and booleans do not have.
CallValidatorOnValue(name, x) ==
  IF name = "isEmailUrlValid" THEN JsBoolean(isEmailUrlValid(ToUSVString(x)))
  ELSE TypeError

\* A validator called with a URL string.
CallValidatorOnUrl(name, u) ==
  IF name = "isEmailUrlValid" THEN isEmailUrlValid(u) ELSE isTelephoneUrlValid(u)

\* The setter of useState: an argument that is a function is an updater,
\* called with the previous state; its result is the next state.
SetStateAction(prev, action) ==
  IF action.type = "function" THEN CallValidatorOnValue(action.val, prev) ELSE action

(***************************************************************************)
(* The Form                                                                *)
(***************************************************************************)

Variants == {"registered", "registry"}

UrlTypes == {"email", "telephone"}

\* Bounds on what the user types.
MaxTelLen == 2

MaxFieldLen == 1

TelAlphabet == {"a", "1"}

AddressAlphabet == {"a", "?"}

QueryAlphabet == {" ", "&"}

TelephoneValues == StringsUpTo(TelAlphabet, MaxTelLen)

EmailValues(dataType) ==
  IF dataType = "email" THEN StringsUpTo(AddressAlphabet, MaxFieldLen)
  ELSE StringsUpTo(QueryAlphabet, MaxFieldLen)

DataTypes == {"email", "subject", "body"}

NoAlert == [text |-> "none", url |-> <<>>]

VARIABLES
  urlType,        \* [variant -> kind]: Form's urlType state
  url,            \* [variant -> string]: Form's url state
  error,          \* [variant -> BOOLEAN]: Form's error state
  validator,      \* [variant -> value]: Form's validator state (registered variant)
  telephone,      \* [variant -> string]: TelephoneForm's state while it is mounted
  emailParts,     \* [variant -> record]: EmailForm's state while it is mounted
  mounted,        \* [variant -> BOOLEAN]: the Form is rendered (no render has thrown)
  effectPending,  \* [variant -> BOOLEAN]: a sub-form mounted and its effect has not run
  alert,          \* [variant -> record]: what the last event passed to alert()
  last,           \* the last user event
  call            \* a codec or validator applied to an input on its own

formVars ==
  <<urlType, url, error, validator, telephone, emailParts, mounted, effectPending,
    alert, last>>

vars == <<formVars, call>>

NoCall == [fn |-> "none", arg |-> <<>>, result |-> <<>>]

\* last: the event's handler, whether it is the first user event, the control
\* edited and the value typed (an edit), and the error state before the event.
NoEvent ==
  [op |-> "none", first |-> FALSE, field |-> "none", value |-> <<>>,
   errorBefore |-> [v \in Variants |-> FALSE]]

Event(op, field, value) ==
  [op |-> op, first |-> last.op = "none", field |-> field, value |-> value,
   errorBefore |-> [v \in Variants |-> error[v]]]

\* The registry of sub-forms (the registered variant's holds the components only;
\* there isValid names the validator the component registers from its effect).
subForms ==
  [email |-> [isValid |-> "isEmailUrlValid", component |-> "EmailForm"],
   telephone |-> [isValid |-> "isTelephoneUrlValid", component |-> "TelephoneForm"]]

\* The validator function the sub-form of a kind defines.
ValidatorOf(kind) == subForms[kind].isValid

\* subForms[urlType].isValid(url), registry variant.
RegistryIsValid(v) == CallValidatorOnUrl(subForms[urlType[v]].isValid, url[v])

\* validator ? validator(url) : false, registered variant.  (A validator state
\* of true is not callable: the render that reads it throws, see MountEffect.)
RegisteredIsValid(v) ==
  IF validator[v].type = "function" THEN CallValidatorOnUrl(validator[v].val, url[v])
  ELSE FALSE

\* Form's isValid, computed by the render the handlers close over.
isValid(v) == IF v = "registry" THEN RegistryIsValid(v) ELSE RegisteredIsValid(v)

FormInit ==
  /\ urlType = [v \in Variants |-> "email"]
  /\ url = [v \in Variants |-> InitialUrl]
  /\ error = [v \in Variants |-> FALSE]
  /\ validator = [v \in Variants |-> JsNull]
  /\ telephone = [v \in Variants |-> <<>>]
  /\ emailParts = [v \in Variants |-> emailPartsFromUrl(InitialUrl)]
  /\ mounted = [v \in Variants |-> TRUE]
  /\ effectPending = [v \in Variants |-> v = "registered"]
  /\ alert = [v \in Variants |-> NoAlert]
  /\ last = NoEvent

Init == FormInit /\ call = NoCall

\* React runs the pending mount effects before it dispatches the next user event.
Ready == \A v \in Variants : ~effectPending[v]

\* The variants are driven by the same user events; a Form whose render threw
\* is unmounted and takes none.
Shows(v, kind) == mounted[v] /\ urlType[v] = kind

\* The state the argument of setValidator leaves in validator.
RegisterValidator(prev, kind) == SetStateAction(prev, JsFunction(ValidatorOf(kind)))

\* useEffect(() => { setValidator(...) }, []) of the sub-form that has mounted.
\* An updater that throws is run again by the render of Form, which throws; so
\* does a render that calls a validator state of true.  Nothing catches it and
\* React unmounts the Form.
MountEffect(v) ==
  /\ effectPending[v]
  /\ LET next == RegisterValidator(validator[v], urlType[v])
         throws == next = TypeError \/ next = JsBoolean(TRUE)
     IN  /\ validator' = [validator EXCEPT ![v] = IF throws THEN @ ELSE next]
         /\ mounted' = [mounted EXCEPT ![v] = ~throws]
  /\ effectPending' = [effectPending EXCEPT ![v] = FALSE]
  /\ UNCHANGED <<urlType, url, error, telephone, emailParts, alert, last, call>>

\* A clearError that does not reach setError.
clearErrorSkipped(v) == error[v]

\* Form's clearError: setError(false).  The value it leaves in error.
clearError(v) == FALSE

\* The select's onChange: setUrlType(k); setUrl('').  The sub-form of the old
\* kind unmounts and the one of kind k mounts, its state decoded from the url.
SelectKind(k) ==
  /\ Ready
  /\ \E v \in Variants : mounted[v] /\ urlType[v] # k
  /\ LET on(v) == mounted[v] /\ urlType[v] # k
     IN  /\ urlType' = [v \in Variants |-> IF on(v) THEN k ELSE urlType[v]]
         /\ url' = [v \in Variants |-> IF on(v) THEN <<>> ELSE url[v]]
         /\ telephone' = [v \in Variants |->
              IF on(v) THEN (IF k = "telephone" THEN telephoneFromUrl(<<>>) ELSE <<>>)
              ELSE telephone[v]]
         /\ emailParts' = [v \in Variants |->
              IF on(v) THEN (IF k = "email" THEN emailPartsFromUrl(<<>>) ELSE EmptyEmailParts)
              ELSE emailParts[v]]
         /\ effectPending' = [v \in Variants |-> on(v) /\ v = "registered"]
         /\ alert' = [v \in Variants |-> IF on(v) THEN NoAlert ELSE alert[v]]
  /\ last' = Event("select", "none", <<>>)
  /\ UNCHANGED <<error, validator, mounted, call>>

\* TelephoneForm's input onChange.
EditTelephone(value) ==
  /\ Ready
  /\ \E v \in Variants : Shows(v, "telephone")
  /\ LET on(v) == Shows(v, "telephone")
     IN  /\ telephone' = [v \in Variants |-> IF on(v) THEN value ELSE telephone[v]]
         /\ url' = [v \in Variants |-> IF on(v) THEN urlFromTelephone(value) ELSE url[v]]
         /\ error' = [v \in Variants |-> IF on(v) THEN clearError(v) ELSE error[v]]
         /\ alert' = [v \in Variants |-> IF on(v) THEN NoAlert ELSE alert[v]]
  /\ last' = Event("edit", "telephone", value)
  /\ UNCHANGED <<urlType, validator, emailParts, mounted, effectPending, call>>

\* An onChange that starts from the empty field set instead of the fields held.
EditEmailFromEmpty(dataType, value) ==
  /\ Ready
  /\ \E v \in Variants : Shows(v, "email")
  /\ LET on(v) == Shows(v, "email")
         updatedEmailParts(v) == [EmptyEmailParts EXCEPT ![dataType] = value]
     IN  /\ emailParts' = [v \in Variants |->
              IF on(v) THEN updatedEmailParts(v) ELSE emailParts[v]]
         /\ url' = [v \in Variants |->
              IF on(v) THEN urlFromEmailParts(updatedEmailParts(v)) ELSE url[v]]
         /\ error' = [v \in Variants |-> IF on(v) THEN clearError(v) ELSE error[v]]
         /\ alert' = [v \in Variants |-> IF on(v) THEN NoAlert ELSE alert[v]]
  /\ last' = Event("edit", dataType, value)
  /\ UNCHANGED <<urlType, validator, telephone, mounted, effectPending, call>>

\* EmailForm's onChange(dataType).
EditEmail(dataType, value) ==
  /\ Ready
  /\ \E v \in Variants : Shows(v, "email")
  /\ LET on(v) == Shows(v, "email")
         updatedEmailParts(v) == [emailParts[v] EXCEPT ![dataType] = value]
     IN  /\ emailParts' = [v \in Variants |->
              IF on(v) THEN updatedEmailParts(v) ELSE emailParts[v]]
         /\ url' = [v \in Variants |->
              IF on(v) THEN urlFromEmailParts(updatedEmailParts(v)) ELSE url[v]]
         /\ error' = [v \in Variants |-> IF on(v) THEN clearError(v) ELSE error[v]]
         /\ alert' = [v \in Variants |-> IF on(v) THEN NoAlert ELSE alert[v]]
  /\ last' = Event("edit", dataType, value)
  /\ UNCHANGED <<urlType, validator, telephone, mounted, effectPending, call>>

\* Form's validate: setError(!isValid).
validate(v) == ~isValid(v)

\* onBlur of the telephone input and of the e-mail address input: validate.
Blur ==
  /\ Ready
  /\ \E v \in Variants : mounted[v]
  /\ error' = [v \in Variants |-> IF mounted[v] THEN validate(v) ELSE error[v]]
  /\ alert' = [v \in Variants |-> IF mounted[v] THEN NoAlert ELSE alert[v]]
  /\ last' = Event("blur", "none", <<>>)
  /\ UNCHANGED <<urlType, url, validator, telephone, emailParts, mounted, effectPending, call>>

\* What onSave passes to alert.
SaveAlert(v) ==
  IF isValid(v) THEN [text |-> "Saved url", url |-> url[v]]
  ELSE [text |-> "invalid url", url |-> url[v]]

\* An onSave that resets the form once the url is saved.
onSaveResetting ==
  /\ error' = [v \in Variants |-> IF mounted[v] THEN validate(v) ELSE error[v]]
  /\ alert' = [v \in Variants |-> IF mounted[v] THEN SaveAlert(v) ELSE alert[v]]
  /\ url' = [v \in Variants |-> IF mounted[v] /\ isValid(v) THEN <<>> ELSE url[v]]
  /\ last' = Event("save", "none", <<>>)
  /\ UNCHANGED <<urlType, validator, telephone, emailParts, mounted, effectPending, call>>

\* Form's onSave: validate(), then the alert.
onSave ==
  /\ error' = [v \in Variants |-> IF mounted[v] THEN validate(v) ELSE error[v]]
  /\ alert' = [v \in Variants |-> IF mounted[v] THEN SaveAlert(v) ELSE alert[v]]
  /\ last' = Event("save", "none", <<>>)
  /\ UNCHANGED <<urlType, url, validator, telephone, emailParts, mounted, effectPending, call>>

\* The Save button's onClick.
ClickSave ==
  /\ Ready
  /\ \E v \in Variants : mounted[v]
  /\ onSave

\* The telephone input's onKeyPress with the Enter key.
TelephoneKeyPressEnter ==
  /\ Ready
  /\ \E v \in Variants : Shows(v, "telephone")
  /\ onSave

Next ==
  \/ \E v \in Variants : MountEffect(v)
  \/ \E k \in UrlTypes : SelectKind(k)
  \/ \E value \in TelephoneValues : EditTelephone(value)
  \/ \E dataType \in DataTypes : \E value \in EmailValues(dataType) : EditEmail(dataType, value)
  \/ Blur
  \/ ClickSave
  \/ TelephoneKeyPressEnter

Spec == Init /\ [][Next]_vars

(***************************************************************************)
(* The telephone codec and validator on their own: an input is drawn, and  *)
(* one of the functions is applied to it.                                  *)
(***************************************************************************)

MaxCodecLen == 2

CodecAlphabet == {"a", "1", ":"}

\* Strings with and without the tel: scheme, at the front or inside.
TelephoneInputs ==
  {a \o b \o c : a \in StringsUpTo(CodecAlphabet, MaxCodecLen),
                 b \in {<<>>, TelScheme, TelScheme \o TelScheme},
                 c \in StringsUpTo(CodecAlphabet, MaxCodecLen)}

TelephoneCodecInit ==
  /\ FormInit
  /\ call \in {[fn |-> "none", arg |-> u, result |-> <<>>] : u \in TelephoneInputs}

CallIsTelephoneUrlValid ==
  /\ call.fn = "none"
  /\ call' = [fn |-> "isTelephoneUrlValid", arg |-> call.arg,
              result |-> isTelephoneUrlValid(call.arg)]
  /\ UNCHANGED formVars

CallTelephoneFromUrl ==
  /\ call.fn = "none"
  /\ call' = [fn |-> "telephoneFromUrl", arg |-> call.arg,
              result |-> telephoneFromUrl(call.arg)]
  /\ UNCHANGED formVars

CallUrlFromTelephone ==
  /\ call.fn = "none"
  /\ call' = [fn |-> "urlFromTelephone", arg |-> call.arg,
              result |-> urlFromTelephone(call.arg)]
  /\ UNCHANGED formVars

\* telephoneFromUrl(urlFromTelephone(telephone)).
CallTelephoneRoundTrip ==
  /\ call.fn = "none"
  /\ call' = [fn |-> "telephoneRoundTrip", arg |-> call.arg,
              result |-> telephoneFromUrl(urlFromTelephone(call.arg))]
  /\ UNCHANGED formVars

TelephoneCodecNext ==
  \/ CallIsTelephoneUrlValid
  \/ CallTelephoneFromUrl
  \/ CallUrlFromTelephone
  \/ CallTelephoneRoundTrip

TelephoneCodecSpec == TelephoneCodecInit /\ [][TelephoneCodecNext]_vars

(***************************************************************************)
(* The e-mail codec and validator on their own, and the decoders on url    *)
(* strings of any kind: a field set or a url is drawn, and one of the      *)
(* functions is applied to it.                                             *)
(***************************************************************************)

MaxEmailCodecLen == 1

MaxUrlLen == 2

\* Addresses: a plain character and the two that end an opaque path.
CodecAddressAlphabet == {"a", "?", "#"}

\* Subjects and bodies: the characters the query string gives a meaning to.
CodecQueryAlphabet == {"b", " ", "&", "=", "+", "%"}

EmailPartsInputs ==
  [email : StringsUpTo(CodecAddressAlphabet, MaxEmailCodecLen),
   subject : StringsUpTo(CodecQueryAlphabet, MaxEmailCodecLen),
   body : StringsUpTo(CodecQueryAlphabet, MaxEmailCodecLen)]

Prefixes(s) == {SubSeq(s, 1, n) : n \in 0..Len(s)}

\* Url strings: the empty one, urls of either scheme, urls typed in part, and
\* strings that are no url.
UrlAlphabet == {"a", "1", ":", "?", "%", " "}

UrlInputs ==
  LET short == StringsUpTo(UrlAlphabet, MaxUrlLen)
  IN  short
        \cup {MailtoScheme \o u : u \in short}
        \cup {TelScheme \o u : u \in short}
        \cup Prefixes(InitialUrl)
        \cup Prefixes(urlFromTelephone(<<"1", "a">>))

EmailCodecInit ==
  /\ FormInit
  /\ call \in {[fn |-> "parts", arg |-> parts, result |-> <<>>] : parts \in EmailPartsInputs}
            \cup {[fn |-> "none", arg |-> u, result |-> <<>>] : u \in UrlInputs}

CallUrlFromEmailParts ==
  /\ call.fn = "parts"
  /\ call' = [fn |-> "urlFromEmailParts", arg |-> call.arg,
              result |-> urlFromEmailParts(call.arg)]
  /\ UNCHANGED formVars

\* emailPartsFromUrl(urlFromEmailParts(parts)).
CallEmailRoundTrip ==
  /\ call.fn = "parts"
  /\ call' = [fn |-> "emailRoundTrip", arg |-> call.arg,
              result |-> emailPartsFromUrl(urlFromEmailParts(call.arg))]
  /\ UNCHANGED formVars

\* isEmailUrlValid(urlFromEmailParts(parts)).
CallIsEmailUrlValidOnEncoded ==
  /\ call.fn = "parts"
  /\ call' = [fn |-> "isEmailUrlValid", arg |-> call.arg,
              result |-> isEmailUrlValid(urlFromEmailParts(call.arg))]
  /\ UNCHANGED formVars

CallEmailPartsFromUrl ==
  /\ call.fn = "none"
  /\ call' = [fn |-> "emailPartsFromUrl", arg |-> call.arg,
              result |-> emailPartsFromUrl(call.arg)]
  /\ UNCHANGED formVars

EmailCodecNext ==
  \/ CallUrlFromEmailParts
  \/ CallEmailRoundTrip
  \/ CallIsEmailUrlValidOnEncoded
  \/ CallEmailPartsFromUrl
  \/ CallTelephoneFromUrl

EmailCodecSpec == EmailCodecInit /\ [][EmailCodecNext]_vars

(***************************************************************************)
(* Properties                                                              *)
(***************************************************************************)

\* The validator of the kind a Form shows, applied to the url it holds.
ActiveKindValidates(v) == CallValidatorOnUrl(subForms[urlType[v]].isValid, url[v])

\* The validator function the container would call: none when the validator
\* state holds no function.
AppliedValidator(v) ==
  IF v = "registry" THEN subForms[urlType[v]].isValid
  ELSE IF validator[v].type = "function" THEN validator[v].val
  ELSE "none"

\* The url of the fields the mounted sub-form holds.
EncodedFields(v) ==
  IF urlType[v] = "telephone" THEN urlFromTelephone(telephone[v])
  ELSE urlFromEmailParts(emailParts[v])

Saved(u) == [text |-> "Saved url", url |-> u]

Refused(u) == [text |-> "invalid url", url |-> u]

HasDigit(s) == \E i \in 1..Len(s) : s[i] \in Digits

HasAlpha(s) == \E i \in 1..Len(s) : s[i] \in Alpha

\* u without a leading tel:.
StripTelPrefix(u) ==
  IF Len(u) >= Len(TelScheme) /\ SubSeq(u, 1, Len(TelScheme)) = TelScheme
  THEN SubSeq(u, Len(TelScheme) + 1, Len(u))
  ELSE u

\* C1: after a select-kind event every Form that took it holds the empty url
\* and an error flag of false.
C1_SelectKindResets ==
  last.op = "select" =>
    \A v \in Variants : mounted[v] => (url[v] = <<>> /\ error[v] = FALSE)

\* C2: whenever a Form can take a user event, exactly one kind of
\* {email, telephone} is active in it and the validator the container would
\* apply is the one of the kind whose sub-form is rendered.
C2_ValidatorOfRenderedKind ==
  Ready =>
    \A v \in Variants : mounted[v] =>
      /\ urlType[v] \in UrlTypes
      /\ subForms[urlType[v]].component \in {"EmailForm", "TelephoneForm"}
      /\ AppliedValidator(v) = subForms[urlType[v]].isValid

\* C3: in the registered variant, a blur or save validation is never evaluated
\* with a validator of another kind than the active one, and after a
\* select-kind to kind k, once the mount effect has run (from when on a
\* validation can be called), the validator state holds k's validator.
C3_ValidatorRegisteredBeforeValidation ==
  /\ (last.op \in {"blur", "save"} /\ mounted["registered"]) =>
       AppliedValidator("registered") \in {"none", subForms[urlType["registered"]].isValid}
  /\ (last.op = "select" /\ ~effectPending["registered"]) =>
       validator["registered"] = JsFunction(subForms[urlType["registered"]].isValid)

\* C4: a save (ClickSave is guarded by nothing but the Form being shown: the
\* button is never disabled) alerts "Saved url <url>" exactly if the url
\* satisfies the active kind's validator; otherwise it alerts
\* "invalid url: <url>" and leaves the error flag true.
C4_SaveOutcome ==
  last.op = "save" =>
    \A v \in Variants : mounted[v] =>
      /\ alert[v] = IF ActiveKindValidates(v) THEN Saved(url[v]) ELSE Refused(url[v])
      /\ ~ActiveKindValidates(v) => error[v]

\* C5: after a blur and after a save attempt the error flag is the negation of
\* the active kind's validator applied to the url the container holds (neither
\* event changes the url).
C5_ErrorIsNegatedValidity ==
  last.op \in {"blur", "save"} =>
    \A v \in Variants : mounted[v] => error[v] = ~ActiveKindValidates(v)

\* C6: after an edit of a control the sub-form holds the typed value in that
\* control's field, the url is the kind's encoding of the sub-form's fields, and
\* the error flag is false, whatever it was before.
C6_EditEncodesAndClearsError ==
  last.op = "edit" =>
    \A v \in Variants : mounted[v] =>
      /\ IF last.field = "telephone" THEN telephone[v] = last.value
         ELSE emailParts[v][last.field] = last.value
      /\ url[v] = EncodedFields(v)
      /\ error[v] = FALSE

\* An edit of the e-mail address made while the error flag was set.
C6_Witness ==
  /\ last.op = "edit" /\ last.field = "email" /\ last.value = <<"a">>
  /\ mounted["registry"] /\ last.errorBefore["registry"] /\ ~error["registry"]
  /\ url["registry"] = urlFromEmailParts(emailParts["registry"])

\* C7: a save, accepted or refused, changes neither the kind, nor the url, nor
\* the fields the sub-form holds.
C7_SaveKeepsState ==
  [][(ClickSave \/ TelephoneKeyPressEnter) =>
       UNCHANGED <<urlType, url, telephone, emailParts>>]_vars

\* A refused save of the telephone a: the url and the field are still in place.
C7_Witness ==
  /\ last.op = "save"
  /\ mounted["registry"] /\ urlType["registry"] = "telephone"
  /\ alert["registry"] = Refused(urlFromTelephone(<<"a">>))
  /\ telephone["registry"] = <<"a">> /\ url["registry"] = urlFromTelephone(<<"a">>)

\* C8: the Form starts with kind email, the default url and no error, and a
\* save as the first user event alerts "Saved url <default url>" and leaves
\* the error flag false.
C8_DefaultStateSaves ==
  /\ last.op = "none" =>
       \A v \in Variants : urlType[v] = "email" /\ url[v] = InitialUrl /\ ~error[v]
  /\ (last.op = "save" /\ last.first) =>
       \A v \in Variants : mounted[v] => (alert[v] = Saved(InitialUrl) /\ ~error[v])

\* C9: a save of a telephone that contains an alphabetical character is refused.
C9_AlphabeticalTelephoneRefused ==
  last.op = "save" =>
    \A v \in Variants : (Shows(v, "telephone") /\ HasAlpha(telephone[v])) =>
      alert[v] = Refused(url[v])

C11_NonEmptyAddressValid ==
  (call.fn = "isEmailUrlValid" /\ call.arg.email # <<>>) => call.result = TRUE

\* C12: isEmailUrlValid is false on the url of every field set whose address
\* is empty, whatever the subject and the body.
C12_EmptyAddressInvalid ==
  (call.fn = "isEmailUrlValid" /\ call.arg.email = <<>>) => call.result = FALSE

\* An empty address with a subject and a body that need encoding.
C12_Witness ==
  /\ call.fn = "isEmailUrlValid"
  /\ call.arg = [email |-> <<>>, subject |-> <<"&">>, body |-> <<"=">>]
  /\ call.result = FALSE

\* C13: emailPartsFromUrl(urlFromEmailParts(fields)) = fields, in its three
\* components.
C13_EmailRoundTrip ==
  call.fn = "emailRoundTrip" =>
    /\ call.result.email = call.arg.email
    /\ call.result.subject = call.arg.subject
    /\ call.result.body = call.arg.body

\* C14: telephoneFromUrl(urlFromTelephone(t)) = t, also for a t that contains
\* tel: itself.
C14_TelephoneRoundTrip ==
  call.fn = "telephoneRoundTrip" => call.result = call.arg

\* A telephone that holds the scheme twice.
C14_Witness ==
  /\ call.fn = "telephoneRoundTrip"
  /\ call.arg = <<"1">> \o TelScheme \o TelScheme \o <<"a">>
  /\ call.result = call.arg

\* u starts, after leading spaces, with a letter, then letters, digits, +, -
\* or ., then a colon: what new URL(u) needs to parse u without a base.
StartsWithScheme(u) ==
  \E n \in 2..Len(u) : \E k \in 1..(n - 1) :
    /\ \A i \in 1..(k - 1) : u[i] = " "
    /\ u[k] \in Alpha
    /\ \A i \in (k + 1)..(n - 1) : u[i] \in SchemeChars
    /\ u[n] = ":"

IsString(x) == DOMAIN x = 1..Len(x) /\ \A i \in 1..Len(x) : x[i] \in {Printable[j] : j \in 1..Len(Printable)}

\* C15: on every url string each decoder returns a field value: telephoneFromUrl
\* a string, emailPartsFromUrl three strings, all of them empty when the url
\* cannot be parsed.
C15_DecodersTotal ==
  /\ call.fn = "telephoneFromUrl" => IsString(call.result)
  /\ call.fn = "emailPartsFromUrl" =>
       /\ DOMAIN call.result = {"email", "subject", "body"}
       /\ IsString(call.result.email)
       /\ IsString(call.result.subject)
       /\ IsString(call.result.body)
       /\ ~StartsWithScheme(call.arg) => call.result = EmptyEmailParts

\* The e-mail decoder on a url of the other kind, on a url typed in part, and on
\* the empty url.
C15_Witness ==
  /\ call.fn = "emailPartsFromUrl"
  /\ \/ call.arg = <<>> /\ call.result = EmptyEmailParts
     \/ call.arg = <<"m", "a", "i", "l">> /\ call.result = EmptyEmailParts
     \/ call.arg = urlFromTelephone(<<"1", "a">>) /\ call.result.email = <<"1", "a">>

\* C16: in the registered variant, once the sub-form of the active kind has
\* mounted and its mount effect has run, the validator state holds that kind's
\* validator function and isValid is that validator applied to the url.
C16_RegisteredValidatorIsFunction ==
  (mounted["registered"] /\ ~effectPending["registered"]) =>
    /\ validator["registered"] = JsFunction(ValidatorOf(urlType["registered"]))
    /\ isValid("registered") = ActiveKindValidates("registered")

\* C17: an edit of one control of the e-mail sub-form sets that component of
\* the field set to the typed value and leaves the other two as they were.
C17_EmailEditFrame ==
  [][\A dataType \in DataTypes : \A value \in EmailValues(dataType) :
       EditEmail(dataType, value) =>
         \A v \in Variants : Shows(v, "email") =>
           /\ emailParts'[v][dataType] = value
           /\ \A other \in DataTypes \ {dataType} :
                emailParts'[v][other] = emailParts[v][other]]_vars

\* An edit of the subject made after the address and the body were typed.
C17_Witness ==
  /\ last.op = "edit" /\ last.field = "subject" /\ last.value = <<"&">>
  /\ Shows("registry", "email")
  /\ emailParts["registry"] = [email |-> <<"a">>, subject |-> <<"&">>, body |-> <<" ">>]

\* C18: in every state the fields the mounted sub-form holds are the active
\* kind's decoding of the url the container holds.
C18_FieldsAreDecodedUrl ==
  \A v \in Variants : mounted[v] =>
    IF urlType[v] = "telephone" THEN telephone[v] = telephoneFromUrl(url[v])
    ELSE emailParts[v] = emailPartsFromUrl(url[v])

\* C19: in every state, an error flag of true stands on a url that fails the
\* active kind's validator.
C19_ErrorOnlyOnInvalidUrl ==
  \A v \in Variants : (mounted[v] /\ error[v]) => ~ActiveKindValidates(v)

\* What a user observes of a Form: nothing of one that is unmounted.
Observed(v) ==
  IF mounted[v]
  THEN [shown |-> TRUE, urlType |-> urlType[v], url |-> url[v], error |-> error[v], alert |-> alert[v]]
  ELSE [shown |-> FALSE, urlType |-> "none", url |-> <<>>, error |-> FALSE, alert |-> NoAlert]

\* C20: after the same user events the two variants show the same kind, url,
\* error flag and acknowledgment.
C20_VariantsEquivalent ==
  Ready => Observed("registered") = Observed("registry")

====
